---- MODULE Spec2Model ----
(***************************************************************************)
(* logwindow (src/main.cc): a bounded line store (LineBuffer) owned by a   *)
(* Writer whose flush thread materialises it to a file, fed by the POSIX   *)
(* input framer (PosixInputReader) running in the main thread.             *)
(*                                                                         *)
(* Bytes are one-character strings; a line is a sequence of bytes.  The    *)
(* POSIX build (POSIX_AVAILABLE = 1) is the one modelled.                  *)
(***************************************************************************)
EXTENDS Integers, Sequences, FiniteSets, TLC

\* ------------------------------------------------------------------ bounds
\* Config::maxSize, scaled down (the byte budget of the store): in the runs of
\* the store and of the input framer alone, and in the runs of the whole program.
UnitMaxSize == 3
FullMaxSize == 2
\* Config::writeInterval in clock ticks (debounced mode).
interval == 1
\* Size of the read buffer of readLoop (char buffer[...]), scaled down.
BufSize == 2
\* Bytes the producer writes to stdin in a run of the input framer alone.
MaxInput == 7
\* Bytes the producer writes to stdin in a run of the whole program.
MaxInputFull == 3
\* Calls of Writer::appendLine in a run of the store alone, and the longest line.
MaxAppends == 4
MaxLineLen == 4
\* I/O steps that may fail in one run.
MaxFaults == 1

\* ------------------------------------------------------------------- bytes
CR == "\r"
LF == "\n"
\* Content bytes (anything but the separator) and the bytes of the input stream.
Content == {"a", CR}
Bytes == Content \cup {LF}
\* Input of the whole-program runs: text without carriage returns.
TextBytes == {"a", LF}

Min(x, y) == IF x < y THEN x ELSE y

RECURSIVE Rep(_, _)
Rep(c, n) == IF n = 0 THEN <<>> ELSE <<c>> \o Rep(c, n - 1)

\* The lines handed to Writer::appendLine when the store is driven directly:
\* every length 0..MaxLineLen, in two contents so that lines can be told apart.
ApiLines == {Rep(c, n) : c \in {"a", "b"}, n \in 0..MaxLineLen}

\* Content the destination file may hold before the program starts (an
\* earlier run's log).
OldFiles == {<<"b", LF, "b", LF>>}

VARIABLES
  \* Config
  maxSize, immediate, atomicWrites,
  \* Writer
  buffer,        \* buffer_ : [lines, totalBytes]
  dirty,         \* dirty_
  shuttingDown,  \* Writer::shuttingDown_
  mutex,         \* mutex_ : "free", "main" or "writer"
  cvWaiting,     \* the flush thread is blocked in cv_.wait / cv_.wait_for
  cvSignaled,    \* cv_.notify_one reached the blocked flush thread
  fileStream,    \* fileStream_ : "null", "open" or "closed"
  sinceFlush,    \* min(steady_clock::now() - lastFlushTime_, interval)
  waited,        \* min(time spent in the current wait_for, interval)
  wpc,           \* position of the flush thread (writerThread)
  fret,          \* where flushLocked was called from: "loop" or "final"
  content,       \* the snapshot flushLocked assembled
  \* file system
  file,          \* bytes at config_.logFile (<<>> when absent)
  tmp,           \* bytes at config_.logFile + ".tmp"
  \* PosixInputReader and main
  currentLine, droppingLine, rShuttingDown,
  chunk,         \* bytes of the current read still to be processed
  hup,           \* fds[0].revents has POLLHUP
  mpc,           \* position of the main thread
  mret,          \* where appendLine returns to
  arg,           \* the argument of the appendLine call in progress
  \* environment
  pipe,          \* bytes written to stdin and not yet read
  closed,        \* the producer closed stdin
  sigPending,    \* a byte is in the signal pipe
  inputLeft,     \* bytes the producer may still write
  faultsLeft,    \* I/O steps that may still fail
  \* history (no effect on the program)
  appended,      \* the lines passed to buffer_.appendLine, in order
  rawLine,       \* bytes of the current input line as they arrived
  framed,        \* one record per input line the framer finished
  ioFailed,      \* some I/O step of a flush (or of the constructor) failed
  flushErr,      \* an I/O step of the flush in progress failed
  preFlush,      \* content of the destination when the flush in progress began
  lastFlush,     \* "none", "ok" or "failed": how the last completed flush went
  sdDirty,       \* dirty_ at the Writer's shutdown transition
  sdFlushes,     \* flushes begun after the Writer's shutdown transition
  realGap,       \* min(time since the last flush ended or the Writer was built, interval)
  unflushed,     \* an appendLine call returned since the last flush ended
  dirtyAge       \* min(time since the oldest such call returned, interval)

vars == <<maxSize, immediate, atomicWrites, buffer, dirty, shuttingDown, mutex, cvWaiting,
          cvSignaled, fileStream, sinceFlush, waited, wpc, fret, content, file, tmp,
          currentLine, droppingLine, rShuttingDown, chunk, hup, mpc, mret, arg,
          pipe, closed, sigPending, inputLeft, faultsLeft, appended, rawLine,
          framed, ioFailed, flushErr, preFlush, lastFlush, sdDirty,
          sdFlushes, realGap, unflushed, dirtyAge>>

configVars == <<maxSize, immediate, atomicWrites>>
readerVars == <<currentLine, droppingLine, rShuttingDown, chunk, hup>>
envVars    == <<pipe, closed, sigPending, inputLeft>>
fsVars     == <<file, tmp, fileStream>>
flushHist  == <<ioFailed, flushErr, preFlush, lastFlush, sdDirty,
                sdFlushes, realGap>>
ageHist    == <<unflushed, dirtyAge>>
frameHist  == <<rawLine, framed>>
threadVars == <<wpc, fret, content, sinceFlush, waited>>

\* ------------------------------------------------------------- LineBuffer
\* Mutant: the separator is not counted.
LineBuffer_appendLine_NoSep(buf, line) ==
  [lines |-> Append(buf.lines, Append(line, LF)),
   totalBytes |-> buf.totalBytes + Len(line)]

\* lines_.push_back(line + '\n'); totalBytes_ += line.size() + 1
LineBuffer_appendLine(buf, line) ==
  [lines |-> Append(buf.lines, Append(line, LF)),
   totalBytes |-> buf.totalBytes + Len(line) + 1]

\* Mutant: evicts while totalBytes_ >= maxSize.
RECURSIVE trimToMax_Eager(_, _)
trimToMax_Eager(buf, max) ==
  IF buf.totalBytes >= max /\ buf.lines # <<>>
  THEN trimToMax_Eager([lines |-> Tail(buf.lines),
                        totalBytes |-> buf.totalBytes - Len(Head(buf.lines))], max)
  ELSE buf

\* while (totalBytes_ > maxSize && !lines_.empty()) { drop the front line }
RECURSIVE trimToMax(_, _)
trimToMax(buf, max) ==
  IF buf.totalBytes > max /\ buf.lines # <<>>
  THEN trimToMax([lines |-> Tail(buf.lines),
                  totalBytes |-> buf.totalBytes - Len(Head(buf.lines))], max)
  ELSE buf

\* out is the concatenation of the stored lines, in order.
RECURSIVE Concat(_)
Concat(ls) == IF ls = <<>> THEN <<>> ELSE Head(ls) \o Concat(Tail(ls))

assemble(buf) == Concat(buf.lines)

EmptyBuffer == [lines |-> <<>>, totalBytes |-> 0]

\* ------------------------------------------------- PosixInputReader (pure)
StripCR(cur) ==
  IF cur # <<>> /\ cur[Len(cur)] = CR THEN SubSeq(cur, 1, Len(cur) - 1) ELSE cur

\* emitLine: CRLF normalisation of currentLine_, then the size check; `call` says
\* whether writer_.appendLine(currentLine_) is reached, `line` is currentLine_ then.
emitLine(cur) ==
  [line |-> StripCR(cur), call |-> ~(Len(StripCR(cur)) + 1 > maxSize)]

\* Mutant: the cap is one byte too high.
CapReached_High(cur) == Len(cur) >= maxSize

\* Mutant: the cap is one byte too low.
CapReached_Low(cur) == Len(cur) + 1 >= maxSize - 1

\* processChunk: currentLine_.size() >= maxSize_ - 1 (maxSize_ > 0 by parseArgs)
CapReached(cur) == Len(cur) >= maxSize - 1

\* processChunk on '\n': droppingLine_ = false (it stays false when it was).
DropFlagAfterLF(drop) == FALSE

\* A record of the history: the input line `raw` ended (lf) or was cut by the end
\* of reading (~lf), and `out` holds the line passed to appendLine, if any.
Framed(raw, lf, out) == [raw |-> raw, lf |-> lf, out |-> out]

\* processChunk from byte 1 of `bytes`, up to the first call of appendLine (emit)
\* or the end of the chunk.  st = [cur, drop, raw, log].
RECURSIVE RunChunk(_, _)
RunChunk(st, bytes) ==
  IF bytes = <<>>
  THEN [cur |-> st.cur, drop |-> st.drop, raw |-> st.raw, log |-> st.log,
        rest |-> <<>>, emit |-> FALSE]
  ELSE
    LET c == Head(bytes)
        e == emitLine(st.cur)
    IN  IF c = LF
        THEN IF st.drop
             THEN RunChunk([cur |-> <<>>, drop |-> DropFlagAfterLF(st.drop), raw |-> <<>>,
                            log |-> Append(st.log, Framed(st.raw, TRUE, <<>>))],
                           Tail(bytes))
             ELSE IF e.call
                  THEN [cur |-> e.line, drop |-> FALSE, raw |-> <<>>,
                        log |-> Append(st.log, Framed(st.raw, TRUE, <<e.line>>)),
                        rest |-> Tail(bytes), emit |-> TRUE]
                  ELSE RunChunk([cur |-> <<>>, drop |-> FALSE, raw |-> <<>>,
                                 log |-> Append(st.log, Framed(st.raw, TRUE, <<>>))],
                                Tail(bytes))
        ELSE IF st.drop
             THEN RunChunk([st EXCEPT !.raw = Append(st.raw, c)], Tail(bytes))
             ELSE IF CapReached(st.cur)
                  THEN RunChunk([cur |-> <<>>, drop |-> TRUE,
                                 raw |-> Append(st.raw, c), log |-> st.log],
                                Tail(bytes))
                  ELSE RunChunk([cur |-> Append(st.cur, c), drop |-> FALSE,
                                 raw |-> Append(st.raw, c), log |-> st.log],
                                Tail(bytes))

\* ------------------------------------------------------ main thread, reader
\* readLoop after its loop: "if (!currentLine_.empty()) emitLine();", then
\* main goes on to writer.shutdown().
LeaveLoop(cur, raw, log) ==
  LET e == emitLine(cur)
  IN  /\ chunk' = <<>>
      /\ rawLine' = <<>>
      /\ IF cur # <<>>
         THEN /\ currentLine' = e.line
              /\ framed' = Append(log, Framed(raw, FALSE, IF e.call THEN <<e.line>> ELSE <<>>))
              /\ IF e.call
                 THEN mpc' = "emit" /\ arg' = e.line /\ mret' = "drain"
                 ELSE mpc' = "shutdown" /\ UNCHANGED <<arg, mret>>
         ELSE /\ currentLine' = cur
              /\ framed' = IF raw # <<>> THEN Append(log, Framed(raw, FALSE, <<>>)) ELSE log
              /\ mpc' = "shutdown"
              /\ UNCHANGED <<arg, mret>>

\* The rest of one loop iteration once read() returned: processChunk up to its
\* next appendLine call, then the POLLHUP check and the loop condition.
Process(st, bytes, h) ==
  LET r == RunChunk(st, bytes)
  IN  /\ droppingLine' = r.drop
      /\ IF r.emit
         THEN /\ currentLine' = r.cur /\ rawLine' = r.raw /\ framed' = r.log
              /\ chunk' = r.rest
              /\ mpc' = "emit" /\ arg' = r.cur /\ mret' = "chunk"
              /\ UNCHANGED rShuttingDown
         ELSE IF h
              THEN /\ rShuttingDown' = TRUE
                   /\ LeaveLoop(r.cur, r.raw, r.log)
              ELSE /\ currentLine' = r.cur /\ rawLine' = r.raw /\ framed' = r.log
                   /\ chunk' = <<>>
                   /\ mpc' = "poll"
                   /\ UNCHANGED <<rShuttingDown, arg, mret>>

writerVars == <<buffer, dirty, shuttingDown, mutex, cvWaiting, cvSignaled>>

\* Mutant: the lock is taken without regard to its holder.
MutexAvailable_Unchecked == TRUE

\* std::lock_guard / std::unique_lock on mutex_ returns when nobody holds it.
MutexAvailable == mutex = "free"

\* Mutant: the notification is lost.
notify_one_Lost == FALSE

\* cv_.notify_one(): a thread blocked on cv_ is made runnable; without one the
\* call has no effect.
notify_one == cvWaiting

\* Mutant: shutdown() leaves the flag as it is.
ShutdownFlag_Unset == shuttingDown

\* Writer::shutdown: shuttingDown_ = true
ShutdownFlag == TRUE

\* main: setupSignalHandling() succeeded; readLoop starts.
M_SetupOk ==
  /\ mpc = "setup"
  /\ mpc' = "poll"
  /\ UNCHANGED <<configVars, writerVars, fsVars, threadVars, readerVars, mret, arg,
                 envVars, faultsLeft, appended, frameHist, flushHist, ageHist>>

\* main: setupSignalHandling() failed: writer.shutdown(); join; return 1.
M_SetupFail ==
  /\ mpc = "setup"
  /\ faultsLeft > 0
  /\ faultsLeft' = faultsLeft - 1
  /\ mpc' = "shutdown"
  /\ UNCHANGED <<configVars, writerVars, fsVars, threadVars, readerVars, mret, arg,
                 envVars, appended, frameHist, flushHist, ageHist>>

\* readLoop: poll() reports the signal pipe readable; it is drained and the
\* loop is left.
M_Signal ==
  /\ mpc = "poll"
  /\ sigPending
  /\ sigPending' = FALSE
  /\ rShuttingDown' = TRUE
  /\ LeaveLoop(currentLine, rawLine, framed)
  /\ UNCHANGED <<configVars, writerVars, fsVars, threadVars, droppingLine, hup,
                 pipe, closed, inputLeft, faultsLeft, appended, flushHist, ageHist>>

\* readLoop: poll() reports stdin readable (with POLLHUP when h), read() returns
\* n > 0 bytes, processChunk runs.
M_Read(n, h) ==
  /\ mpc = "poll"
  /\ n \in 1..Min(BufSize, Len(pipe))
  /\ h \in (IF closed THEN BOOLEAN ELSE {FALSE})
  /\ pipe' = SubSeq(pipe, n + 1, Len(pipe))
  /\ hup' = h
  /\ Process([cur |-> currentLine, drop |-> droppingLine, raw |-> rawLine,
              log |-> framed], SubSeq(pipe, 1, n), h)
  /\ UNCHANGED <<configVars, writerVars, fsVars, threadVars, closed, sigPending,
                 inputLeft, faultsLeft, appended, flushHist, ageHist>>

\* readLoop: stdin is at its end: read() returns 0, or poll() reports POLLHUP
\* alone; either way shuttingDown_ = true and the loop is left.
M_Eof ==
  /\ mpc = "poll"
  /\ closed /\ pipe = <<>>
  /\ rShuttingDown' = TRUE
  /\ LeaveLoop(currentLine, rawLine, framed)
  /\ UNCHANGED <<configVars, writerVars, fsVars, threadVars, droppingLine, hup,
                 envVars, faultsLeft, appended, flushHist, ageHist>>

\* readLoop: poll() or read() fails with another error than EINTR/EAGAIN:
\* "return false", without the partial line.
M_ReadError ==
  /\ mpc = "poll"
  /\ faultsLeft > 0
  /\ faultsLeft' = faultsLeft - 1
  /\ mpc' = "shutdown"
  /\ UNCHANGED <<configVars, writerVars, fsVars, threadVars, readerVars, mret, arg,
                 envVars, appended, frameHist, flushHist, ageHist>>

\* Writer::appendLine, first half: lock_guard, buffer_.appendLine(line).
M_AppendLock ==
  /\ mpc = "emit"
  /\ MutexAvailable
  /\ mutex' = "main"
  /\ buffer' = LineBuffer_appendLine(buffer, arg)
  /\ appended' = Append(appended, arg)
  /\ mpc' = "append"
  /\ UNCHANGED <<configVars, dirty, shuttingDown, cvWaiting, cvSignaled, fsVars,
                 threadVars, readerVars, mret, arg, envVars, faultsLeft, frameHist,
                 flushHist, ageHist>>

\* Writer::appendLine, second half: trimToMax, dirty_ = true, notify_one, unlock;
\* then the caller goes on (processChunk clears currentLine_ and continues).
M_AppendFinish ==
  /\ mpc = "append"
  /\ buffer' = trimToMax(buffer, maxSize)
  /\ dirty' = TRUE
  /\ cvSignaled' = notify_one
  /\ mutex' = "free"
  /\ CASE mret = "chunk" ->
            Process([cur |-> <<>>, drop |-> droppingLine, raw |-> rawLine,
                     log |-> framed], chunk, hup)
       [] mret = "drain" ->
            /\ mpc' = "shutdown"
            /\ UNCHANGED <<currentLine, droppingLine, rShuttingDown, chunk, mret, arg,
                           frameHist>>
       [] OTHER ->
            /\ mpc' = "api"
            /\ UNCHANGED <<currentLine, droppingLine, rShuttingDown, chunk, mret, arg,
                           frameHist>>
  /\ unflushed' = TRUE
  /\ dirtyAge' = IF unflushed THEN dirtyAge ELSE 0
  /\ UNCHANGED <<configVars, shuttingDown, cvWaiting, fsVars, threadVars, hup, envVars,
                 faultsLeft, appended, flushHist>>

\* A caller of Writer::appendLine(line), when the store is driven directly.
Api_appendLine(line) ==
  /\ mpc = "api"
  /\ Len(appended) < MaxAppends
  /\ arg' = line
  /\ mret' = "api"
  /\ mpc' = "emit"
  /\ UNCHANGED <<configVars, writerVars, fsVars, threadVars, readerVars, envVars,
                 faultsLeft, appended, frameHist, flushHist, ageHist>>

\* ------------------------------------------------------------- environment
\* The environment is observed by poll() alone, so its steps are taken while the
\* reader is at poll(): a byte, a close or a signal that arrives while the main
\* thread is elsewhere is seen exactly as one that arrives just before it polls.
AtPoll == mpc = "poll"

\* The producer writes one byte to stdin (bound: budget bytes in a run).
Produce(b) ==
  /\ AtPoll
  /\ ~closed
  /\ inputLeft > 0
  /\ inputLeft' = inputLeft - 1
  /\ pipe' = Append(pipe, b)
  /\ UNCHANGED <<configVars, writerVars, fsVars, threadVars, readerVars, mpc, mret,
                 arg, closed, sigPending, faultsLeft, appended, frameHist, flushHist, ageHist>>

\* The producer closes stdin.
Close ==
  /\ AtPoll
  /\ ~closed
  /\ closed' = TRUE
  /\ UNCHANGED <<configVars, writerVars, fsVars, threadVars, readerVars, mpc, mret,
                 arg, pipe, sigPending, inputLeft, faultsLeft, appended, frameHist,
                 flushHist, ageHist>>

\* signalHandler: SIGINT or SIGTERM writes a byte to the signal pipe.
signalHandler ==
  /\ AtPoll
  /\ ~sigPending
  /\ sigPending' = TRUE
  /\ UNCHANGED <<configVars, writerVars, fsVars, threadVars, readerVars, mpc, mret,
                 arg, pipe, closed, inputLeft, faultsLeft, appended, frameHist,
                 flushHist, ageHist>>

\* ------------------------------------------------------------------- Init
\* What every run starts from; the callers fix the configuration, the main
\* thread's position, the budgets and the destination file.
InitCommon ==
  /\ buffer = EmptyBuffer
  /\ dirty = FALSE /\ shuttingDown = FALSE
  /\ mutex = "free" /\ cvWaiting = FALSE /\ cvSignaled = FALSE
  /\ sinceFlush = 0 /\ waited = 0
  /\ wpc = "start" /\ fret = "loop" /\ content = <<>>
  /\ tmp = <<>>
  /\ currentLine = <<>> /\ droppingLine = FALSE /\ rShuttingDown = FALSE
  /\ chunk = <<>> /\ hup = FALSE
  /\ mret = "chunk" /\ arg = <<>>
  /\ pipe = <<>> /\ closed = FALSE /\ sigPending = FALSE
  /\ appended = <<>> /\ rawLine = <<>> /\ framed = <<>>
  /\ flushErr = FALSE /\ preFlush = <<>> /\ lastFlush = "none"
  /\ sdDirty = FALSE /\ sdFlushes = 0 /\ realGap = 0
  /\ unflushed = FALSE /\ dirtyAge = 0

\* The store driven directly through Writer::appendLine, the flush thread not
\* yet scheduled.
InitStore ==
  /\ InitCommon
  /\ maxSize = UnitMaxSize
  /\ immediate = TRUE /\ atomicWrites = FALSE
  /\ fileStream = "open" /\ file = <<>>
  /\ mpc = "api"
  /\ inputLeft = 0 /\ faultsLeft = 0 /\ ioFailed = FALSE

NextStore ==
  \/ \E line \in ApiLines : Api_appendLine(line)
  \/ M_AppendLock
  \/ M_AppendFinish

SpecStore == InitStore /\ [][NextStore]_vars

\* The input framer in the main thread, the flush thread not yet scheduled
\* (it writes no variable of the framer and none of the store's lines).
InitFramer ==
  /\ InitCommon
  /\ maxSize = UnitMaxSize
  /\ immediate = TRUE /\ atomicWrites = FALSE
  /\ fileStream = "open" /\ file = <<>>
  /\ mpc = "setup"
  /\ inputLeft = MaxInput /\ faultsLeft = 0 /\ ioFailed = FALSE

NextFramer ==
  \/ \E b \in Bytes : Produce(b)
  \/ Close
  \/ signalHandler
  \/ M_SetupOk
  \/ M_Signal
  \/ \E n \in 1..BufSize, h \in BOOLEAN : M_Read(n, h)
  \/ M_Eof
  \/ M_AppendLock
  \/ M_AppendFinish

SpecFramer == InitFramer /\ [][NextFramer]_vars

\* ------------------------------------------------------------ main: shutdown
\* Writer::shutdown, first half: { lock_guard; shuttingDown_ = true; }
M_Shutdown ==
  /\ mpc = "shutdown"
  /\ MutexAvailable
  /\ shuttingDown' = ShutdownFlag
  /\ sdDirty' = dirty
  /\ mpc' = "notify"
  /\ UNCHANGED <<configVars, buffer, dirty, mutex, cvWaiting, cvSignaled, fsVars,
                 threadVars, readerVars, mret, arg, envVars, faultsLeft, appended,
                 frameHist, ioFailed, flushErr, preFlush, lastFlush,
                 sdFlushes, realGap, ageHist>>

\* Writer::shutdown, second half: cv_.notify_one() outside the lock.
M_Notify ==
  /\ mpc = "notify"
  /\ cvSignaled' = notify_one
  /\ mpc' = "join"
  /\ UNCHANGED <<configVars, buffer, dirty, shuttingDown, mutex, cvWaiting, fsVars,
                 threadVars, readerVars, mret, arg, envVars, faultsLeft, appended,
                 frameHist, flushHist, ageHist>>

\* main: writerThread.join(); return.
M_Join ==
  /\ mpc = "join"
  /\ wpc = "done"
  /\ mpc' = "exit"
  /\ UNCHANGED <<configVars, writerVars, fsVars, threadVars, readerVars, mret, arg,
                 envVars, faultsLeft, appended, frameHist, flushHist, ageHist>>

\* ------------------------------------------------------------ flush thread
FlushPcs == {"at_open", "at_write", "at_rename", "ip_open", "ip_write", "ip_resize",
             "end"}
InFlush == wpc \in FlushPcs

mainVars == <<readerVars, mpc, mret, arg, envVars, appended, frameHist>>

\* flushLocked, its first statements: buffer_.assemble(content) and the choice of
\* the strategy (flushInPlace reopens the stream when it is not open).
FlushBegin(from) ==
  /\ content' = assemble(buffer)
  /\ fret' = from
  /\ wpc' = IF atomicWrites THEN "at_open"
            ELSE IF fileStream = "open" THEN "ip_write" ELSE "ip_open"
  /\ preFlush' = file
  /\ flushErr' = FALSE
  /\ sdFlushes' = IF shuttingDown THEN sdFlushes + 1 ELSE sdFlushes

NoFlush == UNCHANGED <<content, fret, preFlush, flushErr, sdFlushes>>

\* Mutant: the final flush is unconditional.
FinalFlushNeeded_Always == TRUE

\* writerThread after its loop: if (dirty_) flushLocked();
FinalFlushNeeded == dirty

\* Mutant: the debounced flush looks at the time only.
ShouldFlushDebounced_TimeOnly(timeout) == timeout \/ sinceFlush >= interval

\* Mutant: the debounced flush looks at dirty_ only.
ShouldFlushDebounced_DirtyOnly(timeout) == dirty

\* writerThread, debounced: dirty_ && (status == timeout ||
\*   steady_clock::now() - lastFlushTime_ >= interval_)
ShouldFlushDebounced(timeout) == dirty /\ (timeout \/ sinceFlush >= interval)

\* writerThread: std::unique_lock<std::mutex> lock(mutex_);
W_Start ==
  /\ wpc = "start"
  /\ MutexAvailable
  /\ mutex' = "writer"
  /\ wpc' = "loop"
  /\ UNCHANGED <<configVars, buffer, dirty, shuttingDown, cvWaiting, cvSignaled,
                 fsVars, fret, content, sinceFlush, waited, mainVars, faultsLeft,
                 flushHist, ageHist>>

\* writerThread: the loop condition found shuttingDown_ set: the final flush,
\* or the end of the thread (the lock is released).
W_LoopExit ==
  /\ wpc = "loop"
  /\ shuttingDown
  /\ IF FinalFlushNeeded
     THEN FlushBegin("final") /\ UNCHANGED mutex
     ELSE wpc' = "done" /\ mutex' = "free" /\ NoFlush
  /\ UNCHANGED <<configVars, buffer, dirty, shuttingDown, cvWaiting, cvSignaled,
                 fsVars, sinceFlush, waited, mainVars, faultsLeft, ioFailed,
                 lastFlush, sdDirty, realGap, ageHist>>

\* writerThread, immediate mode: cv_.wait(lock, pred) finds the predicate true
\* (dirty_ here, the loop being entered only with shuttingDown_ false).
W_ImmFlush ==
  /\ wpc = "loop"
  /\ ~shuttingDown
  /\ immediate
  /\ dirty
  /\ FlushBegin("loop")
  /\ UNCHANGED <<configVars, writerVars, fsVars, sinceFlush, waited, mainVars,
                 faultsLeft, ioFailed, lastFlush, sdDirty, realGap, ageHist>>

\* writerThread: the thread blocks and releases the lock: cv_.wait with a false
\* predicate (immediate), cv_.wait_for(lock, interval_) (debounced).
W_Wait ==
  /\ wpc = "loop"
  /\ ~shuttingDown
  /\ immediate => ~dirty
  /\ wpc' = "waiting"
  /\ mutex' = "free"
  /\ cvWaiting' = TRUE
  /\ cvSignaled' = FALSE
  /\ waited' = 0
  /\ UNCHANGED <<configVars, buffer, dirty, shuttingDown, fsVars, fret, content,
                 sinceFlush, mainVars, faultsLeft, flushHist, ageHist>>

\* The blocked thread wakes and has the lock again.  Immediate mode: the
\* predicate dirty_ || shuttingDown_ is evaluated again, a false one blocks
\* again, a true one returns and "if (dirty_) flushLocked()".  Debounced mode:
\* wait_for returns (timeout or not) and the flush condition is evaluated.
Wake(timeout) ==
  /\ wpc = "waiting"
  /\ MutexAvailable
  /\ IF immediate
     THEN IF dirty
          THEN /\ FlushBegin("loop")
               /\ mutex' = "writer" /\ cvWaiting' = FALSE /\ cvSignaled' = FALSE
          ELSE IF shuttingDown
               THEN /\ wpc' = "loop"
                    /\ mutex' = "writer" /\ cvWaiting' = FALSE /\ cvSignaled' = FALSE
                    /\ NoFlush
               ELSE /\ cvSignaled' = FALSE
                    /\ UNCHANGED <<wpc, mutex, cvWaiting>>
                    /\ NoFlush
     ELSE /\ mutex' = "writer" /\ cvWaiting' = FALSE /\ cvSignaled' = FALSE
          /\ IF ShouldFlushDebounced(timeout)
             THEN FlushBegin("loop")
             ELSE wpc' = "loop" /\ NoFlush
  /\ waited' = IF wpc' = "waiting" THEN waited ELSE 0
  /\ UNCHANGED <<configVars, buffer, dirty, shuttingDown, fsVars, sinceFlush, mainVars,
                 faultsLeft, ioFailed, lastFlush, sdDirty, realGap, ageHist>>

\* A notify_one reached the blocked thread.
W_WakeNotified == cvSignaled /\ Wake(FALSE)

\* A spurious wake-up (both waits allow them).
W_WakeSpurious == ~cvSignaled /\ Wake(FALSE)

\* wait_for ran out of time: std::cv_status::timeout.
W_WakeTimeout == ~immediate /\ waited >= interval /\ Wake(TRUE)

\* --------------------------------------------------------- the I/O of a flush
\* A step of a flush goes to the next one, or fails and ends the strategy
\* function; flushLocked then goes on to its last two statements ("end").
IoStep(from, to) ==
  /\ wpc = from
  /\ wpc' = to
  /\ UNCHANGED <<configVars, writerVars, fret, content, sinceFlush, waited, mainVars,
                 faultsLeft, ioFailed, flushErr, preFlush, lastFlush, sdDirty,
                 sdFlushes, realGap, ageHist>>

IoFail(from) ==
  /\ wpc = from
  /\ faultsLeft > 0
  /\ faultsLeft' = faultsLeft - 1
  /\ ioFailed' = TRUE
  /\ flushErr' = TRUE
  /\ wpc' = "end"
  /\ UNCHANGED <<configVars, writerVars, fret, content, sinceFlush, waited, mainVars,
                 preFlush, lastFlush, sdDirty, sdFlushes, realGap, ageHist>>

\* The first n bytes of the file replaced by data (seekp(0); write).
Overwrite(f, data) == data \o SubSeq(f, Len(data) + 1, Len(f))

\* Mutant: the snapshot is written straight to the destination.
WriteTmp_Direct(data) == file' = data /\ UNCHANGED tmp

\* flushAtomic: tmp.write(content...) goes to logFile + ".tmp".
WriteTmp(data) == tmp' = data /\ UNCHANGED file

\* Mutant: the file keeps its length.
Resized_Kept(f, n) == f

\* std::filesystem::resize_file(config_.logFile, content.size(), ec)
Resized(f, n) == SubSeq(f, 1, Min(n, Len(f)))

\* flushAtomic: std::ofstream tmp(tmpFile, binary | trunc)
W_AtOpen ==
  /\ IoStep("at_open", "at_write")
  /\ tmp' = <<>>
  /\ UNCHANGED <<file, fileStream>>

W_AtOpenFail ==
  /\ IoFail("at_open")
  /\ UNCHANGED fsVars

\* flushAtomic: tmp.write(...); tmp.close();
W_AtWrite ==
  /\ IoStep("at_write", "at_rename")
  /\ WriteTmp(content)
  /\ UNCHANGED fileStream

\* The write or the close fails after k bytes; the temporary file is left.
W_AtWriteFail(k) ==
  /\ IoFail("at_write")
  /\ k \in 0..Len(content)
  /\ WriteTmp(SubSeq(content, 1, k))
  /\ UNCHANGED fileStream

\* flushAtomic: std::rename(tmpFile, logFile) == 0
W_AtRename ==
  /\ IoStep("at_rename", "end")
  /\ file' = tmp
  /\ tmp' = <<>>
  /\ UNCHANGED fileStream

\* rename fails: std::remove(tmpFile)
W_AtRenameFail ==
  /\ IoFail("at_rename")
  /\ tmp' = <<>>
  /\ UNCHANGED <<file, fileStream>>

\* flushInPlace: the stream is not open: openFile() (in | out | binary | trunc)
W_IpOpen ==
  /\ IoStep("ip_open", "ip_write")
  /\ fileStream' = "open"
  /\ file' = <<>>
  /\ UNCHANGED tmp

\* openFile fails: fileStream_.reset(); flushInPlace returns.
W_IpOpenFail ==
  /\ IoFail("ip_open")
  /\ fileStream' = "null"
  /\ UNCHANGED <<file, tmp>>

\* flushInPlace: seekp(0); write(content); flush();
W_IpWrite ==
  /\ IoStep("ip_write", "ip_resize")
  /\ file' = Overwrite(file, content)
  /\ UNCHANGED <<tmp, fileStream>>

\* The stream fails after k bytes: closeFile(); return.
W_IpWriteFail(k) ==
  /\ IoFail("ip_write")
  /\ k \in 0..Len(content)
  /\ file' = Overwrite(file, SubSeq(content, 1, k))
  /\ fileStream' = "closed"
  /\ UNCHANGED tmp

\* flushInPlace: resize_file(logFile, content.size())
W_IpResize ==
  /\ IoStep("ip_resize", "end")
  /\ file' = Resized(file, Len(content))
  /\ UNCHANGED <<tmp, fileStream>>

\* resize_file fails: reported, nothing else.
W_IpResizeFail ==
  /\ IoFail("ip_resize")
  /\ UNCHANGED fsVars

\* flushLocked, its last statements: dirty_ = false; lastFlushTime_ = now();
\* then back to the loop, or out of writerThread after the final flush.
W_FlushEnd ==
  /\ wpc = "end"
  /\ dirty' = FALSE
  /\ sinceFlush' = 0
  /\ realGap' = 0
  /\ unflushed' = FALSE /\ dirtyAge' = 0
  /\ lastFlush' = IF flushErr THEN "failed" ELSE "ok"
  /\ IF fret = "loop"
     THEN wpc' = "loop" /\ UNCHANGED mutex
     ELSE wpc' = "done" /\ mutex' = "free"
  /\ content' = <<>> /\ preFlush' = <<>> /\ flushErr' = FALSE
  /\ UNCHANGED <<configVars, buffer, shuttingDown, cvWaiting, cvSignaled, fsVars,
                 fret, waited, mainVars, faultsLeft, ioFailed, sdDirty, sdFlushes>>

\* ------------------------------------------------------------------- time
\* One tick of the steady clock.  The clock is read in debounced mode only, and
\* what passes during a flush is forgotten at its end (lastFlushTime_ = now()),
\* so ticks are taken outside the flushes.
Tick ==
  /\ ~immediate
  /\ wpc \in {"start", "loop", "waiting"}
  /\ sinceFlush' = Min(sinceFlush + 1, interval)
  /\ realGap' = Min(realGap + 1, interval)
  /\ waited' = IF cvWaiting THEN Min(waited + 1, interval) ELSE waited
  /\ dirtyAge' = IF unflushed THEN Min(dirtyAge + 1, interval) ELSE dirtyAge
  /\ <<sinceFlush', realGap', waited', dirtyAge'>> # <<sinceFlush, realGap, waited, dirtyAge>>
  /\ UNCHANGED unflushed
  /\ UNCHANGED <<configVars, writerVars, fsVars, wpc, fret, content, mainVars,
                 faultsLeft, ioFailed, flushErr, preFlush, lastFlush,
                 sdDirty, sdFlushes>>

\* ------------------------------------------------------- the whole program
\* After Writer's constructor and the start of the flush thread.  In-place
\* mode: openFile() truncated the destination, or failed; atomic mode: the
\* destination is not touched.
Init ==
  /\ InitCommon
  /\ maxSize = FullMaxSize
  /\ immediate \in BOOLEAN
  /\ atomicWrites \in BOOLEAN
  /\ mpc = "setup"
  /\ inputLeft = MaxInputFull
  /\ \/ /\ atomicWrites
        /\ fileStream = "null" /\ file \in OldFiles
        /\ faultsLeft = MaxFaults /\ ioFailed = FALSE
     \/ /\ ~atomicWrites
        /\ fileStream = "open" /\ file = <<>>
        /\ faultsLeft = MaxFaults /\ ioFailed = FALSE
     \/ /\ ~atomicWrites
        /\ fileStream = "null" /\ file \in OldFiles
        /\ faultsLeft = MaxFaults /\ ioFailed = TRUE

EnvNext ==
  \/ \E b \in TextBytes : Produce(b)
  \/ Close
  \/ signalHandler

MainNext ==
  \/ M_SetupOk
  \/ M_SetupFail
  \/ M_Signal
  \/ \E n \in 1..BufSize, h \in BOOLEAN : M_Read(n, h)
  \/ M_Eof
  \/ M_ReadError
  \/ M_AppendLock
  \/ M_AppendFinish
  \/ M_Shutdown
  \/ M_Notify
  \/ M_Join

FlushIo ==
  \/ W_AtOpen
  \/ W_AtOpenFail
  \/ W_AtWrite
  \/ \E k \in 0..FullMaxSize : W_AtWriteFail(k)
  \/ W_AtRename
  \/ W_AtRenameFail
  \/ W_IpOpen
  \/ W_IpOpenFail
  \/ W_IpWrite
  \/ \E k \in 0..FullMaxSize : W_IpWriteFail(k)
  \/ W_IpResize
  \/ W_IpResizeFail

\* The steps of the flush thread that the scheduler owes it.
WriterNext ==
  \/ W_Start
  \/ W_LoopExit
  \/ W_ImmFlush
  \/ W_Wait
  \/ W_WakeNotified
  \/ W_WakeTimeout
  \/ FlushIo
  \/ W_FlushEnd

Next ==
  \/ EnvNext
  \/ MainNext
  \/ WriterNext
  \/ W_WakeSpurious
  \/ Tick

Spec == Init /\ [][Next]_vars

\* The scheduler runs both threads and the clock advances: the flush thread takes
\* its steps (a spurious wake-up is owed to nobody), the main thread gets the
\* mutex when it is free again and again, and time passes.  The environment owes
\* nothing: the input may never end.
SpecFair ==
  /\ Spec
  /\ WF_vars(WriterNext)
  /\ SF_vars(MainNext)
  /\ WF_vars(Tick)

\* The program in immediate mode: the clock is never read and no wait times out.
InitImmediate == Init /\ immediate

WriterNextImmediate ==
  \/ W_Start
  \/ W_LoopExit
  \/ W_ImmFlush
  \/ W_Wait
  \/ W_WakeNotified
  \/ FlushIo
  \/ W_FlushEnd

NextImmediate ==
  \/ EnvNext
  \/ MainNext
  \/ WriterNextImmediate
  \/ W_WakeSpurious

SpecImmediateFair ==
  /\ InitImmediate /\ [][NextImmediate]_vars
  /\ WF_vars(WriterNextImmediate)
  /\ SF_vars(MainNext)

\* Once stdin is closed or a termination signal is pending, the process
\* terminates: the reader leaves its loop, the flush thread ends and is joined.
Terminates == (closed \/ sigPending) ~> (mpc = "exit")

\* =================================================================== claims
RECURSIVE SumLen(_)
SumLen(ls) == IF ls = <<>> THEN 0 ELSE Len(Head(ls)) + SumLen(Tail(ls))

\* The stored form of a line: its content and the separator.
Stored(line) == Append(line, LF)
StoredAll(ls) == [i \in DOMAIN ls |-> Stored(ls[i])]
Suffix(s, k) == SubSeq(s, Len(s) - k + 1, Len(s))
Admitted(line) == Len(line) + 1 <= maxSize

\* No call of Writer::appendLine is between its append and its trim.
AppendDone == mpc # "append"

\* C1: after every call of Writer::appendLine, with lines of any length, the
\* store's totalBytes is the sum of (content length + 1) over the retained
\* lines, each retained line being a content followed by one separator, and
\* totalBytes is at most maxSize.
C1_TotalBytesExact ==
  /\ \A i \in DOMAIN buffer.lines :
       /\ buffer.lines[i] # <<>>
       /\ buffer.lines[i][Len(buffer.lines[i])] = LF
  /\ buffer.totalBytes = SumLen(buffer.lines)
  /\ AppendDone => buffer.totalBytes <= maxSize

\* C1's case: an oversized line and admitted lines were appended, the last call
\* returned and lines are retained after an eviction.
C1_Witness ==
  /\ mpc = "api"
  /\ \E i \in DOMAIN appended : ~Admitted(appended[i])
  /\ buffer.lines # <<>>
  /\ Len(buffer.lines) < Len(appended)
  /\ buffer.totalBytes = maxSize

\* C2: after appends of admitted lines L1..Ln the retained lines are the
\* longest suffix of L1..Ln whose stored size is at most maxSize: in order,
\* oldest evicted first, and nothing evicted that would still fit.
C2_LongestSuffix ==
  (AppendDone /\ \A i \in DOMAIN appended : Admitted(appended[i])) =>
    LET n == Len(appended)
        k == Len(buffer.lines)
    IN  /\ k <= n
        /\ buffer.lines = Suffix(StoredAll(appended), k)
        /\ SumLen(buffer.lines) <= maxSize
        /\ k < n => SumLen(buffer.lines) + Len(appended[n - k]) + 1 > maxSize

\* C2's case: admitted lines only, some evicted and at least two retained.
C2_Witness ==
  /\ mpc = "api"
  /\ \A i \in DOMAIN appended : Admitted(appended[i])
  /\ Len(buffer.lines) >= 2
  /\ Len(buffer.lines) < Len(appended)
  /\ \E i, j \in DOMAIN appended : appended[i] # appended[j]

\* The input line of a record ended with a bare '\n' (no '\r' before it).
BareLF(rec) == rec.lf /\ (rec.raw = <<>> \/ rec.raw[Len(rec.raw)] # CR)

RECURSIVE Outs(_)
Outs(log) == IF log = <<>> THEN <<>> ELSE Head(log).out \o Outs(Tail(log))

\* The appendLine call the main thread is about to make, if any.
PendingCall == IF mpc = "emit" THEN <<arg>> ELSE <<>>

C7_StripOnlyBeforeLF ==
  \A i \in DOMAIN framed :
    framed[i].out # <<>> =>
      framed[i].out = <<IF framed[i].lf THEN StripCR(framed[i].raw)
                        ELSE framed[i].raw>>

\* C3 (as claimed, its final state): when the process has terminated and no I/O
\* step failed, the dirty flag is false and the destination file holds
\* assemble() of the store.
C3_FinalFileIsStore ==
  (mpc = "exit" /\ ~ioFailed) => (~dirty /\ file = assemble(buffer))

\* C4: after the Writer's shutdown transition (no append follows it) the flush
\* thread begins exactly one flush if dirty_ was set at the transition and
\* none if it was not, in the loop or after it, and has done so when it ends.
C4_OneFinalFlush ==
  LET due == IF sdDirty THEN 1 ELSE 0
  IN  /\ sdFlushes <= due
      /\ wpc = "done" => (shuttingDown /\ sdFlushes = due /\ ~dirty)
      /\ shuttingDown => mpc \in {"notify", "join", "exit"}

\* C4's case: debounced mode, dirty at the transition, the one flush taken
\* inside the loop on wake-up, the thread ended.
C4_Witness ==
  /\ ~immediate
  /\ wpc = "done"
  /\ sdDirty /\ sdFlushes = 1
  /\ fret = "loop"

\* C5 (as claimed): after a flush attempt one of whose I/O steps failed, the
\* dirty flag is still set.
C5_DirtyKeptOnFailure == lastFlush = "failed" => dirty

\* C8: in atomic-writes mode the destination holds, at every step of a flush,
\* either what it held when the flush began or the whole snapshot, and what it
\* held before once a step of the flush has failed.
C8_AtomicAllOrNothing ==
  (atomicWrites /\ InFlush) =>
    /\ file = preFlush \/ file = content
    /\ flushErr => file = preFlush

\* C8's case: the temporary file was written in part, the write failed, and
\* the destination still holds the previous snapshot.
C8_Witness ==
  /\ atomicWrites
  /\ wpc = "end" /\ flushErr
  /\ Len(tmp) > 0 /\ Len(tmp) < Len(content)
  /\ file = preFlush /\ file # content
  /\ lastFlush = "ok"

\* C9: when a flush completes without I/O failure the destination equals the
\* snapshot byte for byte (nothing of a longer previous content remains), and it
\* equals assemble() of the store until the next append, so that a flush taken
\* then would write what is there.
C9_RoundTrip ==
  /\ (wpc = "end" /\ ~flushErr) => file = content
  /\ (lastFlush = "ok" /\ ~dirty /\ AppendDone) => file = assemble(buffer)

\* C9's case: an in-place flush without failure whose snapshot is shorter than
\* what the file held.
C9_Witness ==
  /\ ~atomicWrites
  /\ wpc = "end" /\ ~flushErr /\ ~ioFailed
  /\ 0 < Len(content) /\ Len(content) < Len(preFlush)
  /\ file = content

\* C10: in debounced mode a flush begun before the Writer's shutdown
\* transition begins at least writeInterval after the previous flush ended,
\* or after the Writer was built when it is the first.
C10_DebounceGap ==
  (~immediate /\ InFlush /\ fret = "loop" /\ ~shuttingDown) => realGap >= interval

\* C10's case: a second flush in debounced mode, before shutdown.
C10_Witness ==
  /\ ~immediate /\ InFlush /\ fret = "loop" /\ ~shuttingDown
  /\ lastFlush # "none"

\* The flush thread is at an I/O step of a flush (the snapshot is taken).
InFlushIo == wpc \in FlushPcs \ {"end"}

\* A flush of the debounced loop, begun before the Writer's shutdown transition.
InDebouncedFlush == ~immediate /\ InFlush /\ fret = "loop" /\ ~shuttingDown

\* C11 (as claimed): in debounced mode, appends less than writeInterval apart
\* and then silence, whatever time passed before the first of them, lead to one
\* flush, begun at least writeInterval after the first append returned (so with
\* every line of the burst in its snapshot): no flush of the loop begins
\* earlier than writeInterval after the oldest append it is the first to cover.
C11_OneFlushAfterInterval == InDebouncedFlush => dirtyAge >= interval

\* C12 (as claimed): the flush thread does not hold the store's lock during
\* the I/O steps of a flush, so that appendLine can take it meanwhile.
C12_LockReleasedForIo == InFlushIo => mutex # "writer"

\* C13: at every step of a flush, under every interleaving, the snapshot is
\* assemble() of the store as the last completed appendLine left it (no call
\* is between its append and its trim): whole stored lines, a suffix of the
\* appended lines in their order, at most maxSize bytes; the one flush thread
\* holds the lock, so no second flush and no append runs meanwhile.
C13_SnapshotConsistent ==
  InFlush =>
    /\ mutex = "writer"
    /\ AppendDone
    /\ content = assemble(buffer)
    /\ Len(content) <= maxSize
    /\ buffer.totalBytes = Len(content)
    /\ Len(buffer.lines) <= Len(appended)
    /\ buffer.lines = Suffix(StoredAll(appended), Len(buffer.lines))

\* C13's case: a flush is writing a snapshot of maxSize bytes while the main
\* thread is about to call appendLine with the next line.
C13_Witness ==
  /\ InFlushIo
  /\ Len(content) = maxSize
  /\ appended # <<>>
  /\ mpc = "emit"

\* C14: in immediate mode, under fair scheduling, every appendLine that
\* returned is followed by the end of a flush begun after it (dirty_ is then
\* cleared), and the flush thread does not stay blocked while dirty_ is set.
C14_ImmediateFlushes ==
  /\ (immediate /\ unflushed) ~> ~unflushed
  /\ (immediate /\ dirty /\ wpc = "waiting") ~> (wpc # "waiting")

\* C14's case: immediate mode, no shutdown, two appends, the last flush ended
\* after the last of them and the thread blocks again.
C14_Witness ==
  /\ immediate /\ ~shuttingDown /\ mpc = "poll"
  /\ Len(appended) >= 2
  /\ lastFlush = "ok" /\ ~unflushed /\ ~dirty
  /\ wpc = "waiting"

\* The final partial line of a record, as the framer holds it when it stops.
Partial(rec) == ~rec.lf /\ rec.raw # <<>>

\* C15 (as claimed): when the framer stops at the end of input or on a signal,
\* a non-empty partial line that is within budget (not being dropped) is passed
\* to appendLine, once, as the last line, before Writer::shutdown; a partial
\* line that was being dropped is not appended.
C15_PartialLineDrained ==
  \A i \in DOMAIN framed :
    Partial(framed[i]) =>
      /\ i = Len(framed)
      /\ framed[i].out = IF Len(framed[i].raw) + 1 <= maxSize
                         THEN <<framed[i].raw>> ELSE <<>>
      /\ (framed[i].out # <<>> /\ mpc \notin {"emit", "append"}) =>
           /\ appended # <<>>
           /\ appended[Len(appended)] = framed[i].raw
      /\ shuttingDown => mpc \notin {"emit", "append"}

\* C15 for partial lines that do not end in '\r' (the strip of C7 apart): it
\* holds for these.
C15_DrainedWithoutCR ==
  \A i \in DOMAIN framed :
    (Partial(framed[i]) /\ framed[i].raw[Len(framed[i].raw)] # CR) =>
      /\ i = Len(framed)
      /\ framed[i].out = IF Len(framed[i].raw) + 1 <= maxSize
                         THEN <<framed[i].raw>> ELSE <<>>
      /\ (framed[i].out # <<>> /\ mpc \notin {"emit", "append"}) =>
           /\ appended # <<>>
           /\ appended[Len(appended)] = framed[i].raw
      /\ shuttingDown => mpc \notin {"emit", "append"}

\* The input line of a record ended with "\r\n".
CRLF(rec) == rec.lf /\ rec.raw # <<>> /\ rec.raw[Len(rec.raw)] = CR

\* C16 (as claimed): a line ended by "\r\n" is appended, without its '\r', when
\* the length of what is left plus one is at most maxSize (so when it equals
\* maxSize), as the same line ended by a bare '\n' is.
C16_LimitAfterNormalisation ==
  \A i \in DOMAIN framed :
    CRLF(framed[i]) =>
      framed[i].out = IF Len(StripCR(framed[i].raw)) + 1 <= maxSize
                      THEN <<StripCR(framed[i].raw)>> ELSE <<>>

AfterShutdownCall == {"notify", "join", "exit"}

\* C17: the framer's and the Writer's shutting-down flags, once true, stay true;
\* Writer::shutdown is called once, with the flag unset, and sets it; the main
\* thread does not come back from there and the flush thread, once ended, stays
\* ended, whatever signals and end of input arrive.
C17_ShutdownMonotonic ==
  [][/\ shuttingDown => shuttingDown'
     /\ rShuttingDown => rShuttingDown'
     /\ mpc = "shutdown" => ~shuttingDown
     /\ mpc' \in AfterShutdownCall => shuttingDown'
     /\ mpc \in AfterShutdownCall => mpc' \in AfterShutdownCall
     /\ wpc = "done" => (wpc' = "done" /\ shuttingDown)]_vars

\* C17's case: the input ended and a signal was sent as well; the process has
\* terminated after its one transition.
C17_Witness ==
  /\ mpc = "exit" /\ wpc = "done"
  /\ closed /\ sigPending
  /\ rShuttingDown /\ shuttingDown

\* C18: at every point of the framer, for every input, currentLine_ holds at
\* most maxSize - 1 bytes, and it is empty while a line is being dropped.
C18_AccumulatorCapped ==
  /\ Len(currentLine) <= maxSize - 1
  /\ droppingLine => currentLine = <<>>

\* C18's case: a line without separator, longer than maxSize, is being dropped.
C18_Witness ==
  /\ mpc = "poll"
  /\ droppingLine
  /\ framed = <<>>
  /\ Len(rawLine) > maxSize + 1
  /\ currentLine = <<>>

\* C19 (as claimed): when poll() reported stdin readable and hung up together
\* and no signal arrived, the framer has read every byte of the input when it
\* stops.
C19_InputConsumedAtHangup ==
  (hup /\ ~sigPending /\ mpc = "shutdown") => pipe = <<>>

\* C20: a flush, in the loop of either mode or the final one, is in progress
\* only with dirty_ set and with an appendLine call returned since the flush
\* before it ended; without any append no flush is begun.
C20_FlushOnlyWhenDirty ==
  /\ InFlush => (dirty /\ unflushed)
  /\ appended = <<>> => (~InFlush /\ lastFlush = "none")

\* C20's case: the final flush, after an earlier flush and an append since.
C20_Witness ==
  /\ InFlush /\ fret = "final"
  /\ lastFlush = "ok"
  /\ Len(appended) >= 2

====
